---- MODULE Spec2Model ----
(***************************************************************************)
(* bevy_text_mesh, src/mesh_system.rs: the two systems that keep a text    *)
(* entity's mesh in step with its TextMesh component and with the font     *)
(* asset store.                                                            *)
(*                                                                         *)
(*   text_mesh    the Synchronizer: one pass over the entities whose        *)
(*                TextMesh or TextMeshState changed since its last run      *)
(*   font_loaded  the Font-Ready Watcher: one pass over the unread          *)
(*                AssetEvent<TextMeshFont> events                           *)
(*                                                                         *)
(* Everything else (the application editing a TextMesh, fonts being added  *)
(* to and removed from Assets<TextMeshFont>, the command buffer being      *)
(* applied) is the environment these two systems run in.                   *)
(***************************************************************************)
EXTENDS Naturals, Integers, Sequences, FiniteSets

\* ------------------------------------------------------------------ bounds
\* Longest queue of unread font events.
MaxEvents == 2
\* Most passes in which one entity is found eligible with its font missing that
\* are told apart: the tally of an entity stops there.
MaxSkips == 7
\* Most writes the application makes to the components of the entities.
MaxEdits == 2

\* The text entities, the font handles, the text contents.
Entities == {1, 2}
FontHandles == {1, 2}
\* The fonts the application removes again after loading them.
Removable == {1}
\* The entities whose components the application writes after spawning them.
Edited == {1}
\* The text and colour the application writes into a TextMesh: another text,
\* another colour.
Contents ==
    { [text |-> "Hello", color |-> "WHITE"],
      [text |-> "World", color |-> "WHITE"],
      [text |-> "Hello", color |-> "RED"] }
\* The values of (Transform, GlobalTransform, Visibility) the application uses.
Placements ==
    { [transform |-> 0, global_transform |-> 0, visibility |-> "Inherited"],
      [transform |-> 1, global_transform |-> 1, visibility |-> "Hidden"] }

\* `warning_trigger_count > 5`
WarningThreshold == 5

\* Option::None of a Handle component
NoHandle == 0
\* An id Assets::add has not handed out yet, and one whose asset was removed.
Unallocated == [asset |-> "Unallocated"]
Removed == [asset |-> "Removed"]
\* The ids Assets<Mesh>::add and Assets<StandardMaterial>::add hand out.
MeshIds == 1 .. Cardinality(Entities) + 1
MaterialIds == 1 .. Cardinality(Entities)
\* A material the application made itself, and the entities it spawned with it.
WithMaterial == {2}
UserMaterialId == Cardinality(Entities) + 1
UserMaterial == [base_color |-> "BLUE", unlit |-> FALSE, alpha_mode |-> "Opaque"]

VARIABLES
    text_meshes,    \* entity -> TextMesh component [text, style: [font, color]]
    state,          \* entity -> TextMeshState component
    changed,        \* entity -> [TextMesh, TextMeshState: BOOLEAN]: the component
                    \*   was written since the last run of text_mesh
    renderable,     \* entity -> [mesh, material: handle or NoHandle, placement]
    fonts,          \* Assets<TextMeshFont>: the font handles that resolve
    events,         \* Events<AssetEvent<TextMeshFont>> not yet read by font_loaded
    meshes,         \* Assets<Mesh>: id -> mesh, Unallocated or Removed
    materials,      \* Assets<StandardMaterial>: id -> material or Unallocated
    commands,       \* the Commands queue of text_mesh, not yet applied
    cache,          \* MeshCache: the (text, font) keys generated so far
    warnings,       \* entity -> number of warn! lines emitted for it
    skips,          \* entity -> number of passes that found it eligible with its
                    \*   font missing, up to MaxSkips
    edits,          \* number of TextMesh writes by the application so far
    panicked        \* a system panicked: the app is gone

vars == << text_meshes, state, changed, renderable, fonts, events, meshes,
           materials, commands, cache, warnings, skips, edits, panicked >>

\* ------------------------------------------------------------- components

\* impl Default for TextMeshState
TextMeshStateDefault ==
    [font_loaded |-> "None", warning_trigger_count |-> 0, warning_shown |-> FALSE]

\* Mesh::new(PrimitiveTopology::TriangleList): no attribute and no indices set yet
MeshNew ==
    [topology |-> "TriangleList", ATTRIBUTE_POSITION |-> << >>,
     ATTRIBUTE_NORMAL |-> << >>, ATTRIBUTE_UV_0 |-> << >>, indices |-> << >>]

\* generate_text_mesh(&text_mesh, &mut font.ttf_font, Some(&mut cache)): the four
\* buffers, a function of the text and the font alone (the cache only saves work).
generate_text_mesh(text_mesh, font) ==
    [vertices |-> << "v", text_mesh.text, font >>,
     normals  |-> << "n", text_mesh.text, font >>,
     uvs      |-> << "uv", text_mesh.text, font >>,
     indices  |-> << "i", text_mesh.text, font >>]

\* What generate_text_mesh leaves in the MeshCache.
CacheKey(text_mesh, font) == << text_mesh.text, font >>

\* Mutant: apply_mesh without its set_indices call.
apply_mesh_NoIndices(mesh_data, mesh) ==
    [mesh EXCEPT !.ATTRIBUTE_POSITION = mesh_data.vertices,
                 !.ATTRIBUTE_NORMAL = mesh_data.normals,
                 !.ATTRIBUTE_UV_0 = mesh_data.uvs]

\* fn apply_mesh(mesh_data: MeshData, mesh: &mut Mesh)
apply_mesh(mesh_data, mesh) ==
    [mesh EXCEPT !.ATTRIBUTE_POSITION = mesh_data.vertices,
                 !.ATTRIBUTE_NORMAL = mesh_data.normals,
                 !.ATTRIBUTE_UV_0 = mesh_data.uvs,
                 !.indices = << "U32", mesh_data.indices >>]

\* The StandardMaterial text_mesh builds when the entity has none.
NewMaterial(text_mesh) ==
    [base_color |-> text_mesh.style.color, unlit |-> TRUE, alpha_mode |-> "Blend"]

\* Assets::add: the first id never handed out.
FreeIds(store) == {i \in DOMAIN store : store[i] = Unallocated}
FirstFree(store) == CHOOSE i \in FreeIds(store) : \A j \in FreeIds(store) : i <= j

\* --------------------------------------------------------------- text_mesh

\* Mutant: the query filters on Changed<TextMesh> alone.
Eligible_TextOnly(e) == changed[e].TextMesh

\* Or<(Changed<TextMesh>, Changed<TextMeshState>)>
Eligible(e) == changed[e].TextMesh \/ changed[e].TextMeshState

\* One more miss on the tally of an entity, which stops at MaxSkips.
Counted(n) == IF n < MaxSkips THEN n + 1 ELSE n

\* Mutant: the latch is never consulted: every miss counts, and every miss past
\* the threshold warns.
FontMissing_WarnAgain(w, e) ==
    LET s == w.state[e]
        count == s.warning_trigger_count + 1
    IN  [w EXCEPT
            !.state[e] = [s EXCEPT !.warning_trigger_count = count,
                                   !.warning_shown = @ \/ (count > WarningThreshold)],
            !.warnings[e] = IF count > WarningThreshold THEN @ + 1 ELSE @,
            !.skips[e] = Counted(@)]

\* Mutant: the increment stands outside `if !state.warning_shown`.
FontMissing_CountOn(w, e) ==
    LET s == w.state[e]
        count == s.warning_trigger_count + 1
        warn == ~s.warning_shown /\ count > WarningThreshold
    IN  [w EXCEPT
            !.state[e] = [s EXCEPT !.warning_trigger_count = count,
                                   !.warning_shown = @ \/ warn],
            !.warnings[e] = IF warn THEN @ + 1 ELSE @,
            !.skips[e] = Counted(@)]

\* Mutant: `>= 5` for `> 5`.
FontMissing_AtThreshold(w, e) ==
    LET s == w.state[e]
        count == s.warning_trigger_count + 1
    IN  IF ~s.warning_shown
        THEN [w EXCEPT
                !.state[e] = [s EXCEPT !.warning_trigger_count = count,
                                       !.warning_shown = (count >= WarningThreshold)],
                !.warnings[e] = IF count >= WarningThreshold THEN @ + 1 ELSE @,
                !.skips[e] = Counted(@)]
        ELSE [w EXCEPT !.skips[e] = Counted(@)]

\* Mutant: a miss also records the font as not loaded.
FontMissing_MarkUnloaded(w, e) ==
    LET s == w.state[e]
        count == s.warning_trigger_count + 1
    IN  IF ~s.warning_shown
        THEN [w EXCEPT
                !.state[e] = [s EXCEPT !.warning_trigger_count = count,
                                       !.warning_shown = (count > WarningThreshold),
                                       !.font_loaded = "Some(false)"],
                !.warnings[e] = IF count > WarningThreshold THEN @ + 1 ELSE @,
                !.skips[e] = Counted(@)]
        ELSE [w EXCEPT !.state[e].font_loaded = "Some(false)",
                       !.skips[e] = Counted(@)]

\* The None arm of fonts.get_mut: the throttled warning. (warnings counts the
\* warn! lines and skips the times this arm is taken; the code keeps neither.)
FontMissing(w, e) ==
    LET s == w.state[e]
        count == s.warning_trigger_count + 1
    IN  IF ~s.warning_shown
        THEN [w EXCEPT
                !.state[e] = [s EXCEPT !.warning_trigger_count = count,
                                       !.warning_shown = (count > WarningThreshold)],
                !.warnings[e] = IF count > WarningThreshold THEN @ + 1 ELSE @,
                !.skips[e] = Counted(@)]
        ELSE [w EXCEPT !.skips[e] = Counted(@)]

\* Mutant: the update also writes the style's colour into the entity's material.
UpdateMesh_Recolor(w, e, mesh_data) ==
    LET mesh == renderable[e].mesh
        material == renderable[e].material
    IN  IF w.meshes[mesh] \in {Unallocated, Removed}
        THEN [w EXCEPT !.panicked = TRUE]
        ELSE [w EXCEPT !.meshes[mesh] = apply_mesh(mesh_data, @),
                       !.materials[material].base_color = text_meshes[e].style.color]

\* Mutant: a successful update re-arms the warning.
UpdateMesh_ResetWarning(w, e, mesh_data) ==
    LET mesh == renderable[e].mesh
    IN  IF w.meshes[mesh] \in {Unallocated, Removed}
        THEN [w EXCEPT !.panicked = TRUE]
        ELSE [w EXCEPT !.meshes[mesh] = apply_mesh(mesh_data, @),
                       !.state[e].warning_trigger_count = 0,
                       !.state[e].warning_shown = FALSE]

\* Mutant: the update builds a new mesh and queues its insert, as the create arm
\* does, and leaves the old mesh in the store.
UpdateMesh_Realloc(w, e, mesh_data) ==
    LET mesh == FirstFree(w.meshes)
    IN  [w EXCEPT !.meshes[mesh] = apply_mesh(mesh_data, MeshNew),
                  !.commands = Append(@,
                      [entity |-> e, mesh |-> mesh,
                       material |-> renderable[e].material,
                       placement |-> renderable[e].placement])]

\* Some(mesh): overwrite the mesh the handle names; unwrap panics when Assets<Mesh>
\* has no mesh under that handle.
UpdateMesh(w, e, mesh_data) ==
    LET mesh == renderable[e].mesh
    IN  IF w.meshes[mesh] \in {Unallocated, Removed}
        THEN [w EXCEPT !.panicked = TRUE]
        ELSE [w EXCEPT !.meshes[mesh] = apply_mesh(mesh_data, @)]

\* Mutant: the first success starts the count of misses afresh.
CreateMesh_ResetCount(w, e, mesh_data) ==
    LET mesh == FirstFree(w.meshes)
        material == renderable[e].material
        new == FirstFree(w.materials)
        w1 == [w EXCEPT !.meshes[mesh] = apply_mesh(mesh_data, MeshNew),
                        !.state[e].warning_trigger_count = 0]
        w2 == IF material # NoHandle THEN w1
              ELSE [w1 EXCEPT !.materials[new] = NewMaterial(text_meshes[e])]
    IN  [w2 EXCEPT !.commands = Append(@,
            [entity |-> e, mesh |-> mesh,
             material |-> IF material # NoHandle THEN material ELSE new,
             placement |-> renderable[e].placement])]

\* None: a new mesh, and a new material unless the entity has one; the insert of
\* the PbrBundle is queued.
CreateMesh(w, e, mesh_data) ==
    LET mesh == FirstFree(w.meshes)
        material == renderable[e].material
        new == FirstFree(w.materials)
        w1 == [w EXCEPT !.meshes[mesh] = apply_mesh(mesh_data, MeshNew)]
        w2 == IF material # NoHandle THEN w1
              ELSE [w1 EXCEPT !.materials[new] = NewMaterial(text_meshes[e])]
    IN  [w2 EXCEPT !.commands = Append(@,
            [entity |-> e, mesh |-> mesh,
             material |-> IF material # NoHandle THEN material ELSE new,
             placement |-> renderable[e].placement])]

\* Mutant: an entity whose font is missing has its stale geometry cleared.
ProcessEntity_ClearOnMiss(w, e) ==
    LET text_mesh == text_meshes[e]
        font == text_mesh.style.font
        mesh == renderable[e].mesh
        w1 == [w EXCEPT !.events = Append(@, [kind |-> "Modified", handle |-> font])]
    IN  IF font \notin fonts
        THEN IF mesh # NoHandle /\ w1.meshes[mesh] \notin {Unallocated, Removed}
             THEN FontMissing([w1 EXCEPT !.meshes[mesh] = MeshNew], e)
             ELSE FontMissing(w1, e)
        ELSE LET mesh_data == generate_text_mesh(text_mesh, font)
                 w2 == [w1 EXCEPT !.cache = @ \cup {CacheKey(text_mesh, font)}]
             IN  IF mesh # NoHandle
                 THEN UpdateMesh(w2, e, mesh_data)
                 ELSE CreateMesh(w2, e, mesh_data)

\* The body of the for loop, for entity e.
ProcessEntity(w, e) ==
    LET text_mesh == text_meshes[e]
        font == text_mesh.style.font
        \* Assets::get_mut sends AssetEvent::Modified for the handle it is given
        w1 == [w EXCEPT !.events = Append(@, [kind |-> "Modified", handle |-> font])]
    IN  IF font \notin fonts
        THEN FontMissing(w1, e)
        ELSE LET mesh_data == generate_text_mesh(text_mesh, font)
                 w2 == [w1 EXCEPT !.cache = @ \cup {CacheKey(text_mesh, font)}]
             IN  IF renderable[e].mesh # NoHandle
                 THEN UpdateMesh(w2, e, mesh_data)
                 ELSE CreateMesh(w2, e, mesh_data)

\* Mutant: `break` for `continue` in the None arm of fonts.get_mut.
RECURSIVE RunPass_BreakOnMiss(_, _)
RunPass_BreakOnMiss(w, order) ==
    IF order = << >> \/ w.panicked THEN w
    ELSE IF text_meshes[Head(order)].style.font \notin fonts
         THEN ProcessEntity(w, Head(order))
         ELSE RunPass_BreakOnMiss(ProcessEntity(w, Head(order)), Tail(order))

\* text_meshes.iter_mut(): the eligible entities, one after the other; a panic
\* ends the pass.
RECURSIVE RunPass(_, _)
RunPass(w, order) ==
    IF order = << >> \/ w.panicked THEN w
    ELSE RunPass(ProcessEntity(w, Head(order)), Tail(order))

\* The orders in which a query may yield the entities of S.
Orders(S) ==
    {o \in [1 .. Cardinality(S) -> S] : \A i, j \in DOMAIN o : i # j => o[i] # o[j]}

\* Mutant: the writes of this run to TextMeshState count as changed for the next.
AfterRun_OwnWrites(w) ==
    [e \in Entities |->
        [TextMesh |-> FALSE, TextMeshState |-> w.state[e] # state[e]]]

\* What counts as changed for the next run: the system's last-run tick moves on, so
\* nothing written up to now, the writes of this run included, does.
AfterRun(w) ==
    [e \in Entities |-> [TextMesh |-> FALSE, TextMeshState |-> FALSE]]

World ==
    [state |-> state, meshes |-> meshes, materials |-> materials,
     commands |-> commands, events |-> events, cache |-> cache,
     warnings |-> warnings, skips |-> skips, panicked |-> panicked]

\* pub(crate) fn text_mesh(..): one run of the system.
text_mesh ==
    /\ ~panicked
    /\ commands = << >>
    /\ LET eligible == {e \in Entities : Eligible(e)}
       IN  /\ Len(events) + Cardinality(eligible) <= MaxEvents
           /\ \E order \in Orders(eligible) :
                LET w == RunPass(World, order)
                IN  /\ state' = w.state
                    /\ meshes' = w.meshes
                    /\ materials' = w.materials
                    /\ commands' = w.commands
                    /\ events' = w.events
                    /\ cache' = w.cache
                    /\ warnings' = w.warnings
                    /\ skips' = w.skips
                    /\ panicked' = w.panicked
                    /\ changed' = IF w.panicked THEN changed ELSE AfterRun(w)
    /\ UNCHANGED << text_meshes, renderable, fonts, edits >>

\* The command buffer of text_mesh is applied: every queued insert of a PbrBundle.
RECURSIVE Inserted(_, _)
Inserted(r, queue) ==
    IF queue = << >> THEN r
    ELSE LET c == Head(queue)
         IN  Inserted([r EXCEPT ![c.entity] =
                          [mesh |-> c.mesh, material |-> c.material,
                           placement |-> c.placement]],
                      Tail(queue))

ApplyCommands ==
    /\ ~panicked
    /\ commands # << >>
    /\ renderable' = Inserted(renderable, commands)
    /\ commands' = << >>
    /\ UNCHANGED << text_meshes, state, changed, fonts, events, meshes, materials,
                    cache, warnings, skips, edits, panicked >>

\* -------------------------------------------------------------- font_loaded

\* Mutant: the event's handle is not compared with the entity's font.
HandleEvent_AnyFont(s, event) ==
    IF event.kind = "Created"
    THEN [e \in Entities |-> [s[e] EXCEPT !.font_loaded = "Some(true)"]]
    ELSE IF event.kind = "Removed"
    THEN [e \in Entities |-> [s[e] EXCEPT !.font_loaded = "Some(false)"]]
    ELSE s

\* One event, applied to every entity of the query.
HandleEvent(s, event) ==
    IF event.kind = "Created"
    THEN [e \in Entities |->
            IF event.handle = text_meshes[e].style.font
            THEN [s[e] EXCEPT !.font_loaded = "Some(true)"] ELSE s[e]]
    ELSE IF event.kind = "Removed"
    THEN [e \in Entities |->
            IF event.handle = text_meshes[e].style.font
            THEN [s[e] EXCEPT !.font_loaded = "Some(false)"] ELSE s[e]]
    ELSE s

RECURSIVE HandleEvents(_, _)
HandleEvents(s, queue) ==
    IF queue = << >> THEN s
    ELSE HandleEvents(HandleEvent(s, Head(queue)), Tail(queue))

\* Mutant: Modified is handled as Created is, so it writes TextMeshState too.
Written_AnyKind(queue) ==
    {e \in Entities : \E i \in DOMAIN queue :
        queue[i].handle = text_meshes[e].style.font}

\* The entities whose TextMeshState some event of the queue writes.
Written(queue) ==
    {e \in Entities : \E i \in DOMAIN queue :
        /\ queue[i].kind \in {"Created", "Removed"}
        /\ queue[i].handle = text_meshes[e].style.font}

\* pub(crate) fn font_loaded(..): one run of the system.
font_loaded ==
    /\ ~panicked
    /\ events # << >>
    /\ state' = HandleEvents(state, events)
    /\ changed' = [e \in Entities |->
                     IF e \in Written(events)
                     THEN [changed[e] EXCEPT !.TextMeshState = TRUE] ELSE changed[e]]
    /\ events' = << >>
    /\ UNCHANGED << text_meshes, renderable, fonts, meshes, materials, commands,
                    cache, warnings, skips, edits, panicked >>

\* -------------------------------------------------------------- environment

\* The application writes the TextMesh of an entity: its text, font or colour.
EditTextMesh ==
    /\ ~panicked
    /\ edits < MaxEdits
    /\ \E e \in Edited, c \in Contents :
         /\ text_meshes' = [text_meshes EXCEPT ![e].text = c.text,
                                               ![e].style.color = c.color]
         /\ changed' = [changed EXCEPT ![e].TextMesh = TRUE]
    /\ edits' = edits + 1
    /\ UNCHANGED << state, renderable, fonts, events, meshes, materials, commands,
                    cache, warnings, skips, panicked >>

\* A font finishes loading: Assets<TextMeshFont> gets it and sends Created.
LoadFont ==
    /\ ~panicked
    /\ Len(events) < MaxEvents
    /\ \E f \in FontHandles \ fonts :
         /\ fonts' = fonts \cup {f}
         /\ events' = Append(events, [kind |-> "Created", handle |-> f])
    /\ UNCHANGED << text_meshes, state, changed, renderable, meshes, materials,
                    commands, cache, warnings, skips, edits, panicked >>

\* A font is removed from Assets<TextMeshFont>, which sends Removed.
RemoveFont ==
    /\ ~panicked
    /\ Len(events) < MaxEvents
    /\ \E f \in fonts \cap Removable :
         /\ fonts' = fonts \ {f}
         /\ events' = Append(events, [kind |-> "Removed", handle |-> f])
    /\ UNCHANGED << text_meshes, state, changed, renderable, meshes, materials,
                    commands, cache, warnings, skips, edits, panicked >>

\* The application moves, hides or shows an entity.
MoveEntity ==
    /\ ~panicked
    /\ edits < MaxEdits
    /\ edits' = edits + 1
    /\ \E e \in Edited, p \in Placements :
         /\ p # renderable[e].placement
         /\ renderable' = [renderable EXCEPT ![e].placement = p]
    /\ UNCHANGED << text_meshes, state, changed, fonts, events, meshes, materials,
                    commands, cache, warnings, skips, panicked >>

\* The application removes a mesh from Assets<Mesh>.
RemoveMesh ==
    /\ ~panicked
    /\ \E m \in MeshIds :
         /\ meshes[m] \notin {Unallocated, Removed}
         /\ meshes' = [meshes EXCEPT ![m] = Removed]
    /\ UNCHANGED << text_meshes, state, changed, renderable, fonts, events,
                    materials, commands, cache, warnings, skips, edits, panicked >>

\* ------------------------------------------------------------ specification

\* The entities are spawned (every component counts as changed), one of them with
\* a material of the application's own; the fonts are loaded already, or not yet.
Init ==
    /\ \E font \in [Entities -> FontHandles] :
         /\ font[1] = 1
         /\ text_meshes = [e \in Entities |->
               [text |-> "Hello", style |-> [font |-> font[e], color |-> "WHITE"]]]
    /\ state = [e \in Entities |-> TextMeshStateDefault]
    /\ changed = [e \in Entities |-> [TextMesh |-> TRUE, TextMeshState |-> TRUE]]
    /\ renderable = [e \in Entities |->
            [mesh |-> NoHandle,
             material |-> IF e \in WithMaterial THEN UserMaterialId ELSE NoHandle,
             placement |-> CHOOSE p \in Placements : p.transform = 0]]
    /\ fonts \in {{}, FontHandles}
    /\ events = << >>
    /\ meshes = [i \in MeshIds |-> Unallocated]
    /\ materials = [i \in MaterialIds \cup {UserMaterialId} |->
                      IF i = UserMaterialId THEN UserMaterial ELSE Unallocated]
    /\ commands = << >>
    /\ cache = {}
    /\ warnings = [e \in Entities |-> 0]
    /\ skips = [e \in Entities |-> 0]
    /\ edits = 0
    /\ panicked = FALSE

Next ==
    \/ text_mesh
    \/ ApplyCommands
    \/ font_loaded
    \/ EditTextMesh
    \/ LoadFont
    \/ RemoveFont
    \/ MoveEntity

\* The application leaves Assets<Mesh> to text_mesh.
Spec == Init /\ [][Next]_vars

NextAssets == Next \/ RemoveMesh

\* The application may also remove meshes from Assets<Mesh>.
SpecAssets == Init /\ [][NextAssets]_vars

\* The application starts with its fonts loaded and a font per entity.
InitFrames ==
    /\ Init
    /\ fonts = FontHandles
    /\ \A e \in Entities : text_meshes[e].style.font = e

\* Both systems run in every frame of the application, and the command buffer is
\* applied in every frame.
SpecFrames ==
    /\ InitFrames
    /\ [][Next]_vars
    /\ WF_vars(text_mesh)
    /\ WF_vars(font_loaded)
    /\ WF_vars(ApplyCommands)

\* ------------------------------------------------------------------ claims

\* The font of entity e resolves in Assets<TextMeshFont>.
Resolves(e) == text_meshes[e].style.font \in fonts

\* What generate_text_mesh returns for entity e as it is declared now.
Generated(e) == generate_text_mesh(text_meshes[e], text_meshes[e].style.font)

\* The slot is a mesh whose four buffers are those of mesh_data.
Carries(slot, mesh_data) ==
    /\ "topology" \in DOMAIN slot
    /\ slot.ATTRIBUTE_POSITION = mesh_data.vertices
    /\ slot.ATTRIBUTE_NORMAL = mesh_data.normals
    /\ slot.ATTRIBUTE_UV_0 = mesh_data.uvs
    /\ slot.indices = << "U32", mesh_data.indices >>

\* The eligible entities a run of text_mesh creates a mesh for.
ToCreate == {e \in Entities : Eligible(e) /\ Resolves(e) /\ renderable[e].mesh = NoHandle}

\* The inserts queued for entity e.
Queued(queue, e) == {i \in DOMAIN queue : queue[i].entity = e}

\* After this step entity e has the geometry of its declaration: in the mesh its
\* handle names, or in a new mesh whose insert is queued.
Regenerated(e) ==
    IF renderable[e].mesh # NoHandle
    THEN Carries(meshes'[renderable[e].mesh], Generated(e))
    ELSE \E i \in Queued(commands', e) :
            /\ commands'[i].mesh \in MeshIds
            /\ Carries(meshes'[commands'[i].mesh], Generated(e))

\* The entities some Created or Removed event of the queue names the font of.
Named(queue) ==
    {e \in Entities : \E i \in DOMAIN queue :
        /\ queue[i].kind \in {"Created", "Removed"}
        /\ queue[i].handle = text_meshes[e].style.font}

\* C1: readiness propagation. When font_loaded has written Some(true) into the
\* TextMeshState of an entity since the last run of text_mesh and the entity's font
\* resolves, the next run of text_mesh generates its geometry and, if it has no
\* mesh yet, queues the insert of one: no write to its TextMesh is needed, and
\* neither the number of earlier misses nor the warning matters.
C1_ReadinessPropagation ==
    [][ text_mesh =>
          \A e \in Entities :
            ( /\ changed[e].TextMeshState
              /\ state[e].font_loaded = "Some(true)"
              /\ Resolves(e) )
            => Regenerated(e) ]_vars

\* An entity that missed its font at least once, was never edited, and has a mesh
\* queued right after font_loaded marked its font as loaded.
C1_Witness ==
    /\ edits = 0
    /\ state[1].warning_trigger_count >= 1
    /\ state[1].font_loaded = "Some(true)"
    /\ ~changed[1].TextMeshState
    /\ Queued(commands, 1) # {}

\* C2: every entity that is eligible in a run of text_mesh and whose font resolves
\* has, after the run, a mesh carrying the four buffers generate_text_mesh returns
\* for its declaration: the mesh of its handle (update), or a new mesh (create)
\* whose handle the applied insert gives it, the mesh store being left alone while
\* the insert is queued.
C2_MeshEqualsGenerated ==
    [][ /\ text_mesh => \A e \in Entities : Eligible(e) /\ Resolves(e) => Regenerated(e)
        /\ ApplyCommands =>
             \A i \in DOMAIN commands :
                renderable'[commands[i].entity].mesh = commands[i].mesh
        /\ commands # << >> => meshes' = meshes ]_vars

\* Entity 1 was created in red with "Hello" and then updated to "World".
C2_Witness ==
    /\ renderable[1].mesh # NoHandle
    /\ renderable[1].material \in MaterialIds
    /\ materials[renderable[1].material].base_color = "RED"
    /\ text_meshes[1].text = "World"
    /\ Carries(meshes[renderable[1].mesh], Generated(1))

\* C3: the warning is emitted at most once for an entity, and after six or more
\* eligible passes without its font it has been emitted exactly once and the latch
\* is set, however many such passes follow.
C3_WarnedOnce ==
    \A e \in Entities :
        /\ warnings[e] <= 1
        /\ skips[e] > WarningThreshold =>
              warnings[e] = 1 /\ state[e].warning_shown

\* An entity that missed its font in a pass after the one that warned.
C3_Witness == skips[1] > WarningThreshold + 1 /\ warnings[1] = 1

\* C4 as stated: warning_trigger_count is the number of passes that found the
\* entity eligible with its font missing, also after the warning.
C4_CountEqualsSkips ==
    \A e \in Entities : state[e].warning_trigger_count = skips[e]

\* C4 as amended: warning_trigger_count counts those passes up to and including
\* the one that warns (the sixth) and stays at 6 from then on.
C4_CountUntilWarned ==
    \A e \in Entities :
        state[e].warning_trigger_count =
            IF skips[e] <= WarningThreshold + 1 THEN skips[e] ELSE WarningThreshold + 1

\* A seventh miss has left the count at 6.
C4_Witness ==
    skips[1] = WarningThreshold + 2 /\ state[1].warning_trigger_count = WarningThreshold + 1

\* C5: a run of text_mesh leaves alone every eligible entity whose font is missing:
\* no insert is queued for it, its mesh and its material keep their contents, and
\* no handle, transform or visibility is written; inserts are queued only for
\* entities whose font resolves, and a run in which no font resolves allocates and
\* generates nothing.
C5_SkipTouchesNothing ==
    [][ text_mesh =>
          /\ renderable' = renderable
          /\ \A e \in Entities :
                Eligible(e) /\ ~Resolves(e) =>
                  /\ Queued(commands', e) = {}
                  /\ renderable[e].mesh # NoHandle =>
                        meshes'[renderable[e].mesh] = meshes[renderable[e].mesh]
                  /\ renderable[e].material # NoHandle =>
                        materials'[renderable[e].material] = materials[renderable[e].material]
          /\ \A i \in DOMAIN commands' : Resolves(commands'[i].entity)
          /\ (\A e \in Entities : Eligible(e) => ~Resolves(e)) =>
                /\ meshes' = meshes
                /\ materials' = materials
                /\ commands' = commands
                /\ cache' = cache ]_vars

\* Entity 1 had the geometry of "Hello" when a pass found it edited to "World" with
\* its font missing: the change was consumed and the mesh still says "Hello".
C5_Witness ==
    /\ renderable[1].mesh # NoHandle
    /\ text_meshes[1].text = "World"
    /\ ~Eligible(1)
    /\ ~Resolves(1)
    /\ state[1].warning_trigger_count >= 1
    /\ Carries(meshes[renderable[1].mesh],
               generate_text_mesh([text |-> "Hello"], text_meshes[1].style.font))

\* C6: idempotence. A run of text_mesh leaves no entity eligible, its own writes to
\* TextMeshState included, and a run that finds no entity eligible changes nothing.
C6_SecondPassIdle ==
    /\ [][ text_mesh => \A e \in Entities : ~Eligible(e)' ]_vars
    /\ []( (\A e \in Entities : ~Eligible(e)) => ~ENABLED (text_mesh /\ vars' # vars) )

\* A pass has just counted a miss of entity 1, and nothing is eligible.
C6_Witness ==
    /\ \A e \in Entities : ~Eligible(e)
    /\ state[1].warning_trigger_count = 1
    /\ skips[1] = 1
    /\ events # << >>
    /\ \A i \in DOMAIN events : events[i].kind = "Modified"

\* C7: update in place. For an eligible entity whose font resolves and which has a
\* mesh handle, a run of text_mesh overwrites the four buffers of that mesh and
\* nothing else of the entity: no insert is queued for it, its handles, transform
\* and visibility stay, its material keeps its contents; and a run that creates no
\* mesh allocates no mesh and no material.
C7_UpdateInPlace ==
    [][ text_mesh =>
          /\ \A e \in Entities :
                Eligible(e) /\ Resolves(e) /\ renderable[e].mesh # NoHandle =>
                  /\ meshes'[renderable[e].mesh] =
                        apply_mesh(Generated(e), meshes[renderable[e].mesh])
                  /\ Queued(commands', e) = {}
                  /\ renderable'[e] = renderable[e]
                  /\ renderable[e].material # NoHandle =>
                        materials'[renderable[e].material] = materials[renderable[e].material]
          /\ (\A e \in Entities :
                Eligible(e) /\ Resolves(e) => renderable[e].mesh # NoHandle) =>
                /\ FreeIds(meshes') = FreeIds(meshes)
                /\ materials' = materials ]_vars

\* Entity 1 was created with "World" and white, then updated to "Hello" and red:
\* the mesh says "Hello" and the material is still white.
C7_Witness ==
    /\ renderable[1].mesh # NoHandle
    /\ << "World", 1 >> \in cache
    /\ text_meshes[1] = [text |-> "Hello", style |-> [font |-> 1, color |-> "RED"]]
    /\ Carries(meshes[renderable[1].mesh], Generated(1))
    /\ renderable[1].material \in MaterialIds
    /\ materials[renderable[1].material].base_color = "WHITE"

\* C8: a run of font_loaded writes the font_loaded field and nothing else, and only
\* of the entities whose font a Created or Removed event names: the warning fields,
\* the renderables, the stores and the entities of every other font stay as they
\* are, and no other entity becomes eligible; Modified events change nothing.
C8_WatcherFrame ==
    [][ font_loaded =>
          /\ UNCHANGED << text_meshes, renderable, fonts, meshes, materials,
                          commands, cache, warnings, skips, panicked >>
          /\ \A e \in Entities :
                /\ state'[e].warning_trigger_count = state[e].warning_trigger_count
                /\ state'[e].warning_shown = state[e].warning_shown
                /\ changed'[e].TextMesh = changed[e].TextMesh
                /\ e \notin Named(events) =>
                      state'[e] = state[e] /\ changed'[e] = changed[e] ]_vars

\* font_loaded has handled the removal of font 1; entity 2, of font 2, has its mesh
\* and its TextMeshState as spawned.
C8_Witness ==
    /\ text_meshes[2].style.font = 2
    /\ state[1].font_loaded = "Some(false)"
    /\ state[2] = TextMeshStateDefault
    /\ renderable[2].mesh # NoHandle
    /\ ~Eligible(2)

\* C9 as stated: no run of text_mesh or font_loaded panics.
C9_NoPanic == ~panicked

\* C10: the latch. warning_shown implies warning_trigger_count > 5; it is set only
\* by a run of text_mesh that finds the entity eligible with its font missing; and
\* once set it stays set, so it is set at most once.
C10_WarningLatch ==
    /\ [](\A e \in Entities :
            state[e].warning_shown => state[e].warning_trigger_count > WarningThreshold)
    /\ [][ \A e \in Entities :
            /\ ~state[e].warning_shown /\ state'[e].warning_shown =>
                  text_mesh /\ Eligible(e) /\ ~Resolves(e)
            /\ state[e].warning_shown => state'[e].warning_shown ]_vars

\* The pass that set the latch of entity 1 has just run.
C10_Witness ==
    /\ state[1].warning_shown
    /\ state[1].warning_trigger_count = WarningThreshold + 1
    /\ skips[1] = WarningThreshold + 1
    /\ ~Eligible(1)

\* The meshes of Assets<Mesh> that are allocated.
Allocated == MeshIds \ FreeIds(meshes)

\* The entities mesh m belongs to: by their handle, or by a queued insert.
Owners(m) ==
    {e \in Entities : renderable[e].mesh = m}
        \cup {commands[i].entity : i \in {j \in DOMAIN commands : commands[j].mesh = m}}

\* C11: no mesh leak. Every allocated mesh belongs to exactly one entity, by its
\* handle or by the one insert queued for it, and an entity that has a handle has
\* no insert queued: at most one mesh per entity is ever allocated. The handle of
\* an entity, once set, always names the same mesh, and a run of text_mesh
\* allocates meshes only for the eligible entities that have none.
C11_NoMeshLeak ==
    /\ [](\A m \in Allocated : Cardinality(Owners(m)) = 1)
    /\ [](\A e \in Entities :
            /\ Cardinality(Queued(commands, e)) <= 1
            /\ renderable[e].mesh # NoHandle => Queued(commands, e) = {})
    /\ [](Cardinality(Allocated) <= Cardinality(Entities))
    /\ [][ /\ \A e \in Entities :
                renderable[e].mesh # NoHandle => renderable'[e].mesh = renderable[e].mesh
          /\ Allocated \subseteq Allocated'
          /\ Cardinality(Allocated' \ Allocated) =
                IF ToCreate # {} /\ text_mesh THEN Cardinality(ToCreate) ELSE 0 ]_vars

\* Both entities have their mesh, and entity 1 was regenerated into it after a
\* pass had missed its font and after every edit the application
\* makes.
C11_Witness ==
    /\ Cardinality(Allocated) = Cardinality(Entities)
    /\ \A e \in Entities : renderable[e].mesh # NoHandle
    /\ skips[1] >= 1
    /\ edits = MaxEdits
    /\ text_meshes[1].text = "World"
    /\ ~Eligible(1)
    /\ Carries(meshes[renderable[1].mesh], Generated(1))

\* What world w holds of entity e: its TextMeshState, the warn! lines about it, and
\* the contents of its mesh and of its material, those its handles name or those
\* of the inserts queued for it, with the placement the inserts carry.
ViewOf(w, e) ==
    LET queued == {w.commands[i] : i \in Queued(w.commands, e)}
    IN  [state |-> w.state[e],
         warnings |-> w.warnings[e],
         queued |-> Cardinality(queued),
         mesh |-> IF renderable[e].mesh # NoHandle
                  THEN {w.meshes[renderable[e].mesh]}
                  ELSE {w.meshes[c.mesh] : c \in queued},
         material |-> IF renderable[e].mesh # NoHandle
                      THEN {renderable[e].material}
                      ELSE {w.materials[c.material] : c \in queued},
         placement |-> {c.placement : c \in queued}]

\* C12: per-object independence within a pass. Wherever text_mesh may run, what the
\* run leaves of every entity (its TextMeshState, its warning, the buffers of its
\* mesh, the mesh and the material its handles or its queued insert give it) is
\* the same for every order of the eligible entities, and in every order every
\* eligible entity whose font resolves has its geometry generated, also after
\* entities whose font is missing.
C12_OrderIndependent ==
    (~panicked /\ commands = << >>) =>
        LET eligible == {e \in Entities : Eligible(e)}
        IN  /\ \A o1, o2 \in Orders(eligible) : \A e \in Entities :
                    ViewOf(RunPass(World, o1), e) = ViewOf(RunPass(World, o2), e)
            /\ \A o \in Orders(eligible) : \A e \in eligible :
                    Resolves(e) =>
                        \E m \in ViewOf(RunPass(World, o), e).mesh :
                            Carries(m, Generated(e))

\* The first pass found both entities eligible, the font of entity 1 missing and
\* that of entity 2 loaded: it counted a miss for one and queued a mesh for the
\* other.
C12_Witness ==
    /\ skips = [e \in Entities |-> IF e = 1 THEN 1 ELSE 0]
    /\ state[1].warning_trigger_count = 1
    /\ ~Resolves(1)
    /\ Queued(commands, 2) # {}
    /\ Queued(commands, 1) = {}
    /\ \A e \in Entities : ~Eligible(e)

\* C13 as stated: warning_trigger_count counts the misses in a row, so a run of
\* text_mesh that generates the geometry of an entity leaves its count at 0 and the
\* misses before it do not add to those after it.
C13_ConsecutiveCount ==
    [][ text_mesh =>
          \A e \in Entities :
            Eligible(e) /\ Resolves(e) => state'[e].warning_trigger_count = 0 ]_vars

\* C13 as amended: warning_trigger_count counts the misses of an entity whether in
\* a row or not. A run that generates its geometry leaves its TextMeshState as it
\* is, a run that misses its font before the warning adds one, and the warning is
\* emitted by the sixth miss of the entity overall.
C13_CountAcrossSuccess ==
    [][ text_mesh =>
          \A e \in Entities :
            /\ Eligible(e) /\ Resolves(e) =>
                  state'[e] = state[e] /\ warnings'[e] = warnings[e]
            /\ Eligible(e) /\ ~Resolves(e) /\ ~state[e].warning_shown =>
                  /\ state'[e].warning_trigger_count = state[e].warning_trigger_count + 1
                  /\ warnings'[e] =
                        IF state[e].warning_trigger_count + 1 > WarningThreshold
                        THEN warnings[e] + 1 ELSE warnings[e]
            /\ warnings'[e] > warnings[e] => skips'[e] = WarningThreshold + 1 ]_vars

\* Five passes missed the font of entity 1 and the next has generated its first
\* mesh: the count is still 5, one miss short of the warning.
C13_Witness ==
    /\ state[1].warning_trigger_count = WarningThreshold
    /\ skips[1] = WarningThreshold
    /\ Queued(commands, 1) # {}
    /\ Resolves(1)

\* C14: the warning fields are never reset. In every step warning_trigger_count
\* does not decrease and warning_shown does not go from true to false, a run that
\* generates the geometry of the entity and the steps that remove and load its font
\* included; and once the warning was shown no step emits another.
C14_NeverReset ==
    [][ \A e \in Entities :
          /\ state'[e].warning_trigger_count >= state[e].warning_trigger_count
          /\ state[e].warning_shown =>
                /\ state'[e].warning_shown
                /\ state'[e].warning_trigger_count = state[e].warning_trigger_count
                /\ warnings'[e] = warnings[e] ]_vars

\* Entity 1 has a mesh, so its font was loaded once, and the font was removed:
\* passes have missed it more often than it takes to warn, and warned once.
C14_Witness ==
    /\ state[1].warning_shown
    /\ state[1].font_loaded = "Some(false)"
    /\ renderable[1].mesh # NoHandle
    /\ skips[1] = MaxSkips
    /\ warnings[1] = 1
    /\ ~Resolves(1)
    /\ ~Eligible(1)

\* C15 as stated: the create path. A run of text_mesh queues for every eligible
\* entity that resolves its font and has no mesh one insert, of one newly allocated
\* mesh and of the material the entity has, or else of one newly allocated material
\* of the style's colour, unlit and alpha-blended, and allocates no other mesh or
\* material; and when the insert is applied the entity gets these handles, and its
\* transform, global transform and visibility after the insert are those before.
C15_CreatePath ==
    [][ /\ text_mesh =>
              /\ \A e \in ToCreate :
                    \E i \in DOMAIN commands' :
                       LET c == commands'[i]
                       IN  /\ Queued(commands', e) = {i}
                           /\ c.mesh \in FreeIds(meshes) \ FreeIds(meshes')
                           /\ IF renderable[e].material # NoHandle
                              THEN c.material = renderable[e].material
                              ELSE /\ c.material \in FreeIds(materials) \ FreeIds(materials')
                                   /\ materials'[c.material] =
                                         [base_color |-> text_meshes[e].style.color,
                                          unlit |-> TRUE, alpha_mode |-> "Blend"]
              /\ Cardinality(FreeIds(meshes) \ FreeIds(meshes')) = Cardinality(ToCreate)
              /\ Cardinality(FreeIds(materials) \ FreeIds(materials')) =
                    Cardinality({e \in ToCreate : renderable[e].material = NoHandle})
        /\ ApplyCommands =>
              \A i \in DOMAIN commands :
                 LET e == commands[i].entity
                 IN  /\ renderable'[e].mesh = commands[i].mesh
                     /\ renderable'[e].material = commands[i].material
                     /\ renderable'[e].placement = renderable[e].placement ]_vars

\* C16: the colour is applied at creation only. No step changes a material that is
\* in the store; a run of text_mesh allocates a material only for an entity it
\* creates the mesh of, with the colour the style has in that run; a write to the
\* TextMesh of an entity makes it eligible; and the run that then finds it with a
\* mesh and its font refreshes the geometry and leaves its material handle alone.
C16_ColorAtCreation ==
    [][ /\ \A m \in DOMAIN materials :
              materials[m] # Unallocated => materials'[m] = materials[m]
        /\ \A m \in FreeIds(materials) \ FreeIds(materials') :
              /\ text_mesh
              /\ \E e \in ToCreate :
                    /\ \E i \in Queued(commands', e) : commands'[i].material = m
                    /\ materials'[m].base_color = text_meshes[e].style.color
        /\ \A e \in Entities :
              /\ text_meshes'[e] # text_meshes[e] => Eligible(e)'
              /\ (Eligible(e) /\ Resolves(e) /\ renderable[e].mesh # NoHandle /\ text_mesh) =>
                    /\ Regenerated(e)
                    /\ renderable'[e].material = renderable[e].material ]_vars

\* Entity 1 was created while its style was red and then written to "World" in
\* white: the pass after the write has refreshed its mesh, and its material is red.
C16_Witness ==
    /\ renderable[1].mesh # NoHandle
    /\ renderable[1].material \in MaterialIds
    /\ materials[renderable[1].material].base_color = "RED"
    /\ text_meshes[1] = [text |-> "World", style |-> [font |-> 1, color |-> "WHITE"]]
    /\ edits = MaxEdits
    /\ ~Eligible(1)
    /\ Resolves(1)
    /\ Carries(meshes[renderable[1].mesh], Generated(1))

\* World w, with v[e] for the font_loaded field of every entity e that v names.
WithFontLoaded(w, v) ==
    [w EXCEPT !.state = [e \in Entities |->
                            IF e \in DOMAIN v THEN [@[e] EXCEPT !.font_loaded = v[e]]
                            ELSE @[e]]]

\* C17: font_loaded is written by font_loaded only. The field of an entity changes
\* only in a run of font_loaded whose queue holds a Created or Removed event for
\* the font of the entity; and text_mesh neither reads nor writes it: wherever it
\* may run, its run from the same world with None in the field of the entities it
\* processes does the same and leaves None in place, so that two worlds which
\* differ in the field only are treated alike.
C17_WatcherOwnsFontLoaded ==
    /\ [][ \A e \in Entities :
              state'[e].font_loaded # state[e].font_loaded =>
                  font_loaded /\ e \in Named(events) ]_vars
    /\ []( (~panicked /\ commands = << >>) =>
              LET eligible == {e \in Entities : Eligible(e)}
                  unknown == [e \in eligible |-> "None"]
                  known == [e \in eligible |-> state[e].font_loaded]
              IN  \A o \in Orders(eligible) :
                    RunPass(World, o) =
                        WithFontLoaded(RunPass(WithFontLoaded(World, unknown), o), known) )

\* Entity 1 was spawned with its font loaded: it has its mesh, was written to and
\* regenerated, no pass ever missed its font, and font_loaded is still None.
C17_Witness ==
    /\ state[1] = TextMeshStateDefault
    /\ skips[1] = 0
    /\ edits = MaxEdits
    /\ renderable[1].mesh # NoHandle
    /\ text_meshes[1].text = "World"
    /\ ~Eligible(1)
    /\ Carries(meshes[renderable[1].mesh], Generated(1))

\* A step of the application: a write to a TextMesh or to a placement, a font
\* loaded or removed.
Application == EditTextMesh \/ LoadFont \/ RemoveFont \/ MoveEntity

\* Nothing is left for the two systems to do.
Quiescent ==
    /\ events = << >>
    /\ commands = << >>
    /\ \A e \in Entities : ~Eligible(e)

\* The work the two systems and the command buffer have before them: the eligible
\* entities, the entities a queued Created or Removed event will make eligible,
\* the events to read and the inserts to apply.
Pending ==
    3 * Cardinality({e \in Entities : Eligible(e)}) + 4 * Cardinality(Named(events))
        + Len(events) + Len(commands)

\* C18: quiescence. A run of text_mesh sends one Modified event per entity it
\* processes and nothing else, and leaves no entity eligible; a run of font_loaded
\* over Modified events alone writes no TextMeshState and makes no entity eligible;
\* every step of the two systems and of the command buffer that changes anything
\* leaves less work pending, and in a quiescent state none changes anything; and
\* every behaviour in which the application stops taking steps ends in a quiescent
\* state, for good.
C18_Quiescence ==
    /\ [][ /\ text_mesh =>
                /\ Len(events') = Len(events) + Cardinality({e \in Entities : Eligible(e)})
                /\ \A i \in DOMAIN events' :
                      IF i \in DOMAIN events THEN events'[i] = events[i]
                      ELSE /\ events'[i].kind = "Modified"
                           /\ \E e \in Entities :
                                 Eligible(e) /\ events'[i].handle = text_meshes[e].style.font
                /\ \A e \in Entities : ~Eligible(e)'
          /\ (font_loaded /\ \A i \in DOMAIN events : events[i].kind = "Modified") =>
                state' = state /\ changed' = changed ]_vars
    /\ [][ (text_mesh \/ font_loaded \/ ApplyCommands) => Pending' < Pending ]_vars
    /\ [](Quiescent =>
            ~ENABLED ((text_mesh \/ font_loaded \/ ApplyCommands) /\ vars' # vars))
    /\ ([]<><<Application>>_vars \/ <>[]Quiescent)

\* The last pass regenerated entity 1 after every edit the application makes, and
\* font_loaded has read the Modified event of that pass: nothing is left to do.
C18_Witness ==
    /\ Quiescent
    /\ edits = MaxEdits
    /\ fonts = FontHandles
    /\ renderable[1].mesh # NoHandle
    /\ text_meshes[1].text = "World"
    /\ Carries(meshes[renderable[1].mesh], Generated(1))
    /\ state[1].font_loaded = "Some(true)"

\* C19: the bounded counter. warning_trigger_count is at most 6, one more than the
\* threshold, in every reachable state, and a run of text_mesh that finds an entity
\* eligible with its font missing after the warning was shown leaves its whole
\* TextMeshState as it is.
C19_BoundedCounter ==
    /\ [](\A e \in Entities : state[e].warning_trigger_count <= WarningThreshold + 1)
    /\ [][ text_mesh =>
              \A e \in Entities :
                Eligible(e) /\ ~Resolves(e) /\ state[e].warning_shown =>
                    state'[e] = state[e] ]_vars

\* Entity 1 never had a mesh; passes have missed its font as often as the model
\* tells apart, the last one just now, and its count stands at 6.
C19_Witness ==
    /\ state[1] = [font_loaded |-> "Some(false)",
                   warning_trigger_count |-> WarningThreshold + 1,
                   warning_shown |-> TRUE]
    /\ skips[1] = MaxSkips
    /\ renderable[1].mesh = NoHandle
    /\ Queued(commands, 1) = {}
    /\ ~Eligible(1)
    /\ events # << >>
    /\ \A i \in DOMAIN events : events[i] = [kind |-> "Modified", handle |-> 1]

====
